---- MODULE Spec2Model ----
(***************************************************************************)
(* Model of LearnablePositionalEncoding.ipynb: the learnable positional   *)
(* table (LearnablePositionalEncoding), the synthetic dataset              *)
(* (DummyDataset) and its DataLoader, the encoder model                    *)
(* (SimpleTransformerModel) and the training loop (train_model).           *)
(*                                                                         *)
(* Tensors are nested sequences, outermost dimension first and 1-based: a *)
(* tensor of shape (B, L, D) is a sequence of B sequences of L sequences   *)
(* of D integers.  All dimensions of the tensors handled here are >= 1.    *)
(* A call that may raise returns a record [err, val]: err = "none" and    *)
(* val the result, or err the name of the exception raised.                *)
(***************************************************************************)
EXTENDS Integers, Sequences, FiniteSets, TLC

VARIABLES
    \* the constructor arguments of the model and its positional table
    max_len, d_model, model_vocab, pos_encoding,
    \* a single forward call: which module was called, its input, its result
    fop, fin, fout,
    \* DummyDataset: its fields and the result of the last __getitem__
    num_samples, seq_length, ds_vocab, data, item,
    \* DataLoader: batch size and the indices its current iterator still holds
    batch_size, remaining,
    \* train_model: arguments, locals and position
    epochs, epoch, pc, err, X, Y, output, loss, total_loss, loss_history, grad,
    \* history of the run, kept to state the properties
    batch_no, drawn, ops, epoch_losses, steps, step_grads

cfgVars   == <<max_len, d_model, model_vocab>>
fwdVars   == <<fop, fin, fout>>
dataVars  == <<num_samples, seq_length, ds_vocab, data>>
trainVars == <<batch_size, remaining, epochs, epoch, pc, err, X, Y, output, loss,
               total_loss, loss_history, grad>>
histVars  == <<batch_no, drawn, ops, epoch_losses, steps, step_grads>>
vars == <<cfgVars, pos_encoding, fwdVars, dataVars, item, trainVars, histVars>>

----------------------------------------------------------------------------
(* Bounds of the model *)

MaxMaxLen  == 2   \* max_len ranges over 1..MaxMaxLen
MaxDModel  == 2   \* d_model ranges over 1..MaxDModel
MaxBatch   == 2   \* batch rows of a forward call's input
MaxSeqLen  == 3   \* sequence length of a forward call's input; dataset seq_length
MaxVocab   == 2   \* vocabulary of the model in a single forward call
TableCap   == 1   \* |entry| of the positional table stays <= TableCap
MaxSamples == 3   \* num_samples of the dataset
MaxEpochs  == 2   \* epochs requested from train_model
MaxSteps   == 4   \* batches a call of train_model processes in all

----------------------------------------------------------------------------
(* Arithmetic and sequence helpers *)

Min(a, b) == IF a < b THEN a ELSE b
Max(a, b) == IF a > b THEN a ELSE b

RECURSIVE SeqSum(_)
SeqSum(s) == IF s = <<>> THEN 0 ELSE s[1] + SeqSum(Tail(s))

\* Python's normalisation of a slice bound i against a length n
PyBound(i, n) == IF i < 0 THEN Max(i + n, 0) ELSE Min(i, n)

\* Python's s[start:stop] (step 1) on a 0-based sequence held 1-based
PySlice(s, start, stop) ==
    SubSeq(s, PyBound(start, Len(s)) + 1, PyBound(stop, Len(s)))

Size0(t) == Len(t)
Size1(t) == Len(t[1])
Size2(t) == Len(t[1][1])
Shape(t) == <<Size0(t), Size1(t), Size2(t)>>

Ok(v)     == [err |-> "none", val |-> v]
Raise(e)  == [err |-> e, val |-> <<>>]

----------------------------------------------------------------------------
(* torch broadcasting and the tensor operations the notebook calls *)

\* size of a broadcast dimension, -1 when the sizes are incompatible
BroadcastDim(a, b) ==
    IF a = b THEN a ELSE IF a = 1 THEN b ELSE IF b = 1 THEN a ELSE -1

\* index into a dimension of size n when the result index is j
BIdx(j, n) == IF n = 1 THEN 1 ELSE j

\* x + p for 3-d tensors, with broadcasting
Add(x, p) ==
    LET s == [n \in 1..3 |-> BroadcastDim(Shape(x)[n], Shape(p)[n])]
    IN IF \E n \in 1..3 : s[n] = -1
       THEN Raise("RuntimeError")
       ELSE Ok([b \in 1..s[1] |-> [i \in 1..s[2] |-> [k \in 1..s[3] |->
                  x[BIdx(b, Size0(x))][BIdx(i, Size1(x))][BIdx(k, Size2(x))]
                + p[BIdx(b, Size0(p))][BIdx(i, Size1(p))][BIdx(k, Size2(p))]]]])

\* t.permute(1, 0, 2)
Permute102(t) ==
    [i \in 1..Size1(t) |-> [b \in 1..Size0(t) |-> t[b][i]]]

Zeros(a, b, c) == [n \in 1..a |-> [i \in 1..b |-> [k \in 1..c |-> 0]]]

----------------------------------------------------------------------------
(* LearnablePositionalEncoding *)

\* faulty variant of PosSlice: the last n rows of the table instead of the first
PosSliceTail(pe, n) == [b \in 1..Len(pe) |-> PySlice(pe[b], Len(pe[b]) - n, Len(pe[b]))]

\* self.pos_encoding[:, :n, :]
PosSlice(pe, n) == [b \in 1..Len(pe) |-> PySlice(pe[b], 0, n)]

\* LearnablePositionalEncoding.forward(x)
PosEncodingForward(pe, x) == Add(x, PosSlice(pe, Size1(x)))

----------------------------------------------------------------------------
(* SimpleTransformerModel *)

\* Parameters other than the positional table.  Their values do not matter
\* to any property below; they are fixed, pairwise distinct integers.
\* nn.Embedding(vocab_size, d_model).weight, shape (vocab, d)
EmbeddingWeight(vocab, d) == [v \in 1..vocab |-> [k \in 1..d |-> 3 * v + k]]
\* nn.Linear(d_model, vocab_size).weight, shape (vocab, d), and .bias
FcWeight(vocab, d) == [v \in 1..vocab |-> [k \in 1..d |-> v + k]]
FcBias(vocab) == [v \in 1..vocab |-> v]

\* self.embedding(src): src holds ids, (B, L); the result is (B, L, d)
Embedding(vocab, d, src) ==
    IF \E b \in 1..Len(src) : \E i \in 1..Len(src[b]) : src[b][i] \notin 0..(vocab - 1)
    THEN Raise("IndexError")
    ELSE Ok([b \in 1..Len(src) |-> [i \in 1..Len(src[b]) |->
                EmbeddingWeight(vocab, d)[src[b][i] + 1]]])

\* self.transformer_encoder(t), built with batch_first = False: t is
\* (S, N, d), dimension 0 the sequence and dimension 1 the batch.  Attention
\* mixes the positions of one batch element and never two batch elements;
\* the layers are stood for by a residual plus the sum over the sequence.
TransformerEncoder(t) ==
    [s \in 1..Size0(t) |-> [n \in 1..Size1(t) |-> [k \in 1..Size2(t) |->
        t[s][n][k] + SeqSum([r \in 1..Size0(t) |-> t[r][n][k]])]]]

\* self.fc_out(t): t is (.., .., d), the result (.., .., vocab)
FcOut(vocab, d, t) ==
    [a \in 1..Size0(t) |-> [c \in 1..Size1(t) |-> [v \in 1..vocab |->
        SeqSum([k \in 1..d |-> t[a][c][k] * FcWeight(vocab, d)[v][k]])
        + FcBias(vocab)[v]]]]

\* faulty variant of ToBatchFirst: the permute after the encoder is missing
NoPermute(t) == t

\* the two permutes around the encoder
ToSeqFirst(t)   == Permute102(t)
ToBatchFirst(t) == Permute102(t)

\* SimpleTransformerModel.forward(src)
ModelForward(vocab, d, pe, src) ==
    LET embedded == Embedding(vocab, d, src)
    IN IF embedded.err # "none" THEN embedded
       ELSE LET added == PosEncodingForward(pe, embedded.val)
            IN IF added.err # "none" THEN added
               ELSE Ok(FcOut(vocab, d,
                        ToBatchFirst(TransformerEncoder(ToSeqFirst(added.val)))))

----------------------------------------------------------------------------
(* DummyDataset and the DataLoader built on it *)

\* torch.randint(0, vocab, (n, s)): every tensor of ids the call may return
RandInt(vocab, n, s) == [1..n -> [1..s -> 0..(vocab - 1)]]

\* DummyDataset.__len__
DatasetLen(n) == n

\* faulty variant of GetItem: the target is not shifted
GetItemUnshifted(d, idx) ==
    <<PySlice(d[idx + 1], 0, -1), PySlice(d[idx + 1], 0, -1)>>

\* DummyDataset.__getitem__(idx): (self.data[idx, :-1], self.data[idx, 1:])
GetItem(d, idx) ==
    <<PySlice(d[idx + 1], 0, -1), PySlice(d[idx + 1], 1, Len(d[idx + 1]))>>

\* len(dataloader), drop_last = False
LenDataLoader(n, bs) == (DatasetLen(n) + bs - 1) \div bs

\* RandomSampler: the orders in which one pass may visit the indices 0..n-1
SamplerOrders(n) ==
    {p \in [1..n -> 0..(n - 1)] : \A a, b \in 1..n : a # b => p[a] # p[b]}

\* faulty variant of BatchIndices: the batch size is ignored
BatchIndicesAll(rem, bs) == rem

\* the indices of the next batch of an iterator that still holds rem
BatchIndices(rem, bs) == SubSeq(rem, 1, Min(bs, Len(rem)))

\* default_collate of the items at the indices idxs: the pair (X, Y)
Collate(d, idxs) ==
    <<[n \in 1..Len(idxs) |-> GetItem(d, idxs[n])[1]],
      [n \in 1..Len(idxs) |-> GetItem(d, idxs[n])[2]]>>

----------------------------------------------------------------------------
(* train_model *)

\* the module-level vocab_size the notebook sets before defining train_model
vocab_size == 50

\* element n (1-based, row-major) of a 3-d tensor
FlatAt(t, n) ==
    LET per == Size1(t) * Size2(t)
        b   == (n - 1) \div per
        r   == (n - 1) % per
    IN t[b + 1][(r \div Size2(t)) + 1][(r % Size2(t)) + 1]

\* t.view(-1, cols) of a contiguous 3-d tensor
View(t, cols) ==
    LET numel == Size0(t) * Size1(t) * Size2(t)
    IN IF numel % cols # 0
       THEN Raise("RuntimeError")
       ELSE Ok([r \in 1..(numel \div cols) |->
                  [c \in 1..cols |-> FlatAt(t, (r - 1) * cols + c)]])

\* y.view(-1) of a contiguous 2-d tensor
ViewFlat(y) ==
    [n \in 1..(Len(y) * Len(y[1])) |->
        y[((n - 1) \div Len(y[1])) + 1][((n - 1) % Len(y[1])) + 1]]

\* the values a batch's loss.item() may take (scaled to integers)
LossValues == {1, 2}

\* nn.CrossEntropyLoss()(out, y): out is (R, C), y is (M); the set of results
CrossEntropy(out, y) ==
    IF Len(out) # Len(y) THEN {Raise("ValueError")}
    ELSE IF \E n \in 1..Len(y) : y[n] \notin 0..(Len(out[1]) - 1)
         THEN {Raise("IndexError")}
         ELSE {Ok(l) : l \in LossValues}

RECURSIVE GCD(_, _)
GCD(a, b) == IF b = 0 THEN a ELSE GCD(b, a % b)

\* a / b of Python, the quotient held as a reduced fraction <<num, den>>
TrueDiv(a, b) ==
    IF b = 0 THEN Raise("ZeroDivisionError")
    ELSE Ok(<<a \div GCD(a, b), b \div GCD(a, b)>>)

\* the gradient of the positional table: the batches whose backward pass
\* has accumulated into it since it was last zeroed, and its direction
NoGrad == [batches |-> {}, dir |-> 0]

\* faulty variant of ZeroedGrad: the gradient is not cleared
KeptGrad(g) == g

\* optimizer.zero_grad()
ZeroedGrad(g) == NoGrad

\* loss.backward(): accumulates the gradient of batch n, of direction dir
Accumulate(g, n, dir) == [batches |-> g.batches \cup {n}, dir |-> g.dir + dir]

\* the rows of the table a forward pass over sequences of length n reads
RowsUsed(pe, n) == 1..Len(PosSlice(pe, n)[1])

\* optimizer.step() on the positional table: rows that received a gradient
\* move against its direction, the other rows keep their value
Stepped(pe, g, n) ==
    [b \in 1..Len(pe) |-> [i \in 1..Len(pe[b]) |-> [k \in 1..Len(pe[b][i]) |->
        IF i \in RowsUsed(pe, n) THEN pe[b][i][k] - g.dir ELSE pe[b][i][k]]]]

\* the table stays within the model's bound
InCap(pe) ==
    \A b \in 1..Len(pe) : \A i \in 1..Len(pe[b]) : \A k \in 1..Len(pe[b][i]) :
        pe[b][i][k] \in (-TableCap)..TableCap

----------------------------------------------------------------------------
(* Values of the variables a specification does not use *)

IdleFwd   == fop = "none" /\ fin = <<>> /\ fout = Ok(<<>>)
NoError   == [type |-> "none", at |-> "none"]
NoItem    == [idx |-> -1, input |-> <<>>, target |-> <<>>]
IdleData  == /\ num_samples = 0 /\ seq_length = 0 /\ ds_vocab = 0
             /\ data = <<>> /\ item = NoItem
IdleTrain == /\ batch_size = 0 /\ remaining = <<>> /\ epochs = 0 /\ epoch = 0
             /\ pc = "idle" /\ err = NoError /\ X = <<>> /\ Y = <<>>
             /\ output = <<>> /\ loss = 0 /\ total_loss = 0
             /\ loss_history = <<>> /\ grad = NoGrad
IdleHist  == /\ batch_no = 0 /\ drawn = <<>> /\ ops = <<>>
             /\ epoch_losses = <<>> /\ steps = 0 /\ step_grads = {}

----------------------------------------------------------------------------
(* Forward calls on a constructed model: SpecFwd *)

\* input tensors of shape (B, L, d) with pairwise distinct entries
InputTensors(d) ==
    {[b \in 1..B |-> [i \in 1..L |-> [k \in 1..d |-> 100 * b + 10 * i + k]]] :
        B \in 1..MaxBatch, L \in 1..MaxSeqLen}

\* batches of token ids of shape (B, L): src[b][i] = (b + i) % m, all zero
\* for m = 1, rows and positions that differ for m >= 2, ids up to MaxVocab
InputIds ==
    {[b \in 1..B |-> [i \in 1..L |-> (b + i) % m]] :
        B \in 1..MaxBatch, L \in 1..MaxSeqLen, m \in 1..(MaxVocab + 1)}

\* LearnablePositionalEncoding.__init__ / SimpleTransformerModel.__init__
InitModel(vocabs, dims) ==
    /\ max_len \in 1..MaxMaxLen
    /\ d_model \in dims
    /\ model_vocab \in vocabs
    /\ pos_encoding = Zeros(1, max_len, d_model)

InitFwd ==
    /\ InitModel(1..MaxVocab, 1..MaxDModel)
    /\ IdleFwd /\ IdleData /\ IdleTrain /\ IdleHist

\* A forward call is made on a constructed or freshly updated model, and its
\* result is held until the next optimizer step.  Calls do not change the
\* model, so a call made after another call reaches no state that the
\* first call made from the same table does not reach.
CanCall == fop \in {"none", "step"}

\* pos_encoding(x)
PosEncodingCall ==
    \E x \in InputTensors(d_model) :
        /\ CanCall
        /\ fop' = "pos_encoding"
        /\ fin' = x
        /\ fout' = PosEncodingForward(pos_encoding, x)
        /\ UNCHANGED <<cfgVars, pos_encoding, dataVars, item, trainVars, histVars>>

\* model(src)
ModelCall ==
    \E src \in InputIds :
        /\ CanCall
        /\ fop' = "model"
        /\ fin' = src
        /\ fout' = ModelForward(model_vocab, d_model, pos_encoding, src)
        /\ UNCHANGED <<cfgVars, pos_encoding, dataVars, item, trainVars, histVars>>

\* an optimizer step between two calls, after batches of length n: the rows
\* 1..n of the table move; the result of the last call is dropped
ParamUpdate ==
    \E n \in 1..max_len, dir \in {-1, 1} :
        /\ InCap(Stepped(pos_encoding, [batches |-> {}, dir |-> dir], n))
        /\ pos_encoding' = Stepped(pos_encoding, [batches |-> {}, dir |-> dir], n)
        /\ fop' = "step"
        /\ fin' = <<>>
        /\ fout' = Ok(<<>>)
        /\ UNCHANGED <<cfgVars, dataVars, item, trainVars, histVars>>

NextFwd == PosEncodingCall \/ ModelCall \/ ParamUpdate

SpecFwd == InitFwd /\ [][NextFwd]_vars

----------------------------------------------------------------------------
(* Properties of a forward call *)

\* sequence length of the input of the last call, and whether its ids are valid
InLen == Len(fin[1])
IdsValid ==
    \A b \in 1..Len(fin) : \A i \in 1..Len(fin[b]) : fin[b][i] \in 0..(model_vocab - 1)

\* C1: a call of LearnablePositionalEncoding.forward or of
\* SimpleTransformerModel.forward whose input is longer than max_len fails
\* with an error, for every max_len >= 1.
C1_LongInputFails ==
    (fop \in {"pos_encoding", "model"} /\ InLen > max_len) => fout.err # "none"

\* C3: for an input (B, L, d_model) with L <= max_len,
\* LearnablePositionalEncoding.forward returns a tensor of the same shape with
\* output[b][i] = input[b][i] + table[i], rows 0..L-1 of the table, the same
\* rows for every batch row.
C3_ElementwiseAdd ==
    (fop = "pos_encoding" /\ InLen <= max_len) =>
        /\ fout.err = "none"
        /\ Shape(fout.val) = Shape(fin)
        /\ \A b \in 1..Size0(fin) : \A i \in 1..Size1(fin) : \A k \in 1..Size2(fin) :
              fout.val[b][i][k] = fin[b][i][k] + pos_encoding[1][i][k]

\* a call on two batch rows of two positions, with a table whose rows differ
C3_Witness ==
    /\ fop = "pos_encoding" /\ InLen <= max_len /\ fout.err = "none"
    /\ Size0(fin) >= 2 /\ InLen >= 1 /\ InLen < max_len
    /\ pos_encoding[1][1] # pos_encoding[1][2]

\* logits[b][i][v] as the row src[b] alone determines them: the embedding of
\* each position j of the row plus row j of the table, mixed over the row's
\* positions, projected on vocabulary entry v
RowLogit(row, i, v) ==
    LET e(j, k) == EmbeddingWeight(model_vocab, d_model)[row[j] + 1][k]
                   + pos_encoding[1][j][k]
        h(k)    == e(i, k) + SeqSum([j \in 1..Len(row) |-> e(j, k)])
    IN SeqSum([k \in 1..d_model |-> h(k) * FcWeight(model_vocab, d_model)[v][k]])
       + FcBias(model_vocab)[v]

\* C4: for ids (B, L) with L <= max_len and ids in [0, vocab),
\* SimpleTransformerModel.forward returns logits of shape (B, L, vocab), and
\* logits[b][i] is computed from batch row b at position i.
C4_LogitsBatchFirst ==
    (fop = "model" /\ InLen <= max_len /\ IdsValid) =>
        /\ fout.err = "none"
        /\ Shape(fout.val) = <<Len(fin), InLen, model_vocab>>
        /\ \A b \in 1..Len(fin) : \A i \in 1..InLen : \A v \in 1..model_vocab :
              fout.val[b][i][v] = RowLogit(fin[b], i, v)

\* a call on two different batch rows of two positions
C4_Witness ==
    /\ fop = "model" /\ InLen <= max_len /\ IdsValid /\ fout.err = "none"
    /\ Len(fin) >= 2 /\ InLen >= 2 /\ fin[1] # fin[2] /\ fin[1][1] # fin[1][2]

----------------------------------------------------------------------------
(* Items of a constructed dataset: SpecData *)

\* vocabulary sizes of the datasets of SpecData
DataVocabs == {1, 2}

\* DummyDataset.__init__(num_samples, seq_length, vocab_size)
InitDataset(ns, ss, vocabs) ==
    /\ num_samples \in ns
    /\ seq_length \in ss
    /\ ds_vocab \in vocabs
    /\ data \in RandInt(ds_vocab, num_samples, seq_length)
    /\ item = NoItem

InitData ==
    /\ InitDataset(1..MaxSamples, 0..MaxSeqLen, DataVocabs)
    /\ max_len = 0 /\ d_model = 0 /\ model_vocab = 0 /\ pos_encoding = <<>>
    /\ IdleFwd /\ IdleTrain /\ IdleHist

\* dataset[idx]
GetItemCall ==
    \E idx \in 0..(DatasetLen(num_samples) - 1) :
        /\ item' = [idx |-> idx, input |-> GetItem(data, idx)[1],
                               target |-> GetItem(data, idx)[2]]
        /\ UNCHANGED <<cfgVars, pos_encoding, fwdVars, dataVars, trainVars, histVars>>

NextData == GetItemCall

SpecData == InitData /\ [][NextData]_vars

\* C5: for a dataset of seq_length S >= 2, __getitem__(idx) returns input and
\* target of length S - 1 with input[j] = data[idx][j], target[j] =
\* data[idx][j+1], so target[j] = input[j+1] for j < S - 2, and every id of
\* both lies in [0, vocab_size).
C5_TargetIsShiftedInput ==
    (item.idx >= 0 /\ seq_length >= 2) =>
        /\ Len(item.input) = seq_length - 1
        /\ Len(item.target) = seq_length - 1
        /\ \A j \in 1..(seq_length - 1) :
              /\ item.input[j] = data[item.idx + 1][j]
              /\ item.target[j] = data[item.idx + 1][j + 1]
              /\ item.input[j] \in 0..(ds_vocab - 1)
              /\ item.target[j] \in 0..(ds_vocab - 1)
        /\ \A j \in 1..(seq_length - 2) : item.target[j] = item.input[j + 1]

\* an item of a row of three ids that are not all the same
C5_Witness ==
    /\ item.idx >= 1 /\ seq_length >= 3
    /\ item.input # item.target
    /\ data[item.idx + 1][1] # data[item.idx + 1][seq_length]

----------------------------------------------------------------------------
(* A call of train_model(model, dataloader, epochs): Spec *)

\* vocabulary sizes of the models passed to train_model
TrainVocabs == {vocab_size \div 2, vocab_size, 2 * vocab_size}

\* the datasets of a training run: ids below every vocabulary of
\* TrainVocabs (c = 1) or spread over [0, vocab_size) (c = 7)
TrainData(n, s) ==
    {[a \in 1..n |-> [j \in 1..s |-> (c * (a + j)) % vocab_size]] : c \in {1, 7}}

\* The model has max_len = MaxMaxLen and d_model = MaxDModel; the batches
\* have length 1, max_len or max_len + 1; the run processes at most MaxSteps
\* batches.
Init ==
    /\ InitModel(TrainVocabs, {MaxDModel})
    /\ max_len = MaxMaxLen
    /\ num_samples \in 0..MaxSamples
    /\ seq_length \in {2, max_len + 1, max_len + 2}
    /\ ds_vocab = vocab_size
    /\ data \in TrainData(num_samples, seq_length)
    /\ item = NoItem
    /\ batch_size \in 1..MaxBatch
    /\ epochs \in 0..MaxEpochs
    /\ epochs * LenDataLoader(num_samples, batch_size) <= MaxSteps
    /\ pc = "setup"
    /\ remaining = <<>> /\ epoch = 0 /\ err = NoError /\ X = <<>> /\ Y = <<>>
    /\ output = <<>> /\ loss = 0 /\ total_loss = 0 /\ loss_history = <<>>
    /\ grad = NoGrad
    /\ IdleFwd /\ IdleHist

\* the exception e leaves train_model from the statement at pc
Fail(e) == pc' = "error" /\ err' = [type |-> e, at |-> pc]

\* criterion, optimizer, loss_history = [], model.train()
Setup ==
    /\ pc = "setup"
    /\ loss_history' = <<>>
    /\ pc' = "epoch"
    /\ UNCHANGED <<cfgVars, pos_encoding, fwdVars, dataVars, item, batch_size,
                   remaining, epochs, epoch, err, X, Y, output, loss, total_loss,
                   grad, histVars>>

\* faulty variant of EpochHead: total_loss is not reset at the start of an epoch
EpochHeadNoReset ==
    /\ pc = "epoch"
    /\ IF epoch < epochs
       THEN /\ remaining' \in SamplerOrders(DatasetLen(num_samples))
            /\ pc' = "batch"
            /\ drawn' = <<>>
            /\ epoch_losses' = <<>>
       ELSE /\ pc' = "done"
            /\ UNCHANGED <<remaining, drawn, epoch_losses>>
    /\ UNCHANGED <<cfgVars, pos_encoding, fwdVars, dataVars, item, batch_size,
                   epochs, epoch, err, X, Y, output, loss, total_loss,
                   loss_history, grad, batch_no, ops, steps, step_grads>>

\* for epoch in range(epochs): total_loss = 0; iter(dataloader)
EpochHead ==
    /\ pc = "epoch"
    /\ IF epoch < epochs
       THEN /\ total_loss' = 0
            /\ remaining' \in SamplerOrders(DatasetLen(num_samples))
            /\ pc' = "batch"
            /\ drawn' = <<>>
            /\ epoch_losses' = <<>>
       ELSE /\ pc' = "done"
            /\ UNCHANGED <<total_loss, remaining, drawn, epoch_losses>>
    /\ UNCHANGED <<cfgVars, pos_encoding, fwdVars, dataVars, item, batch_size,
                   epochs, epoch, err, X, Y, output, loss, loss_history, grad,
                   batch_no, ops, steps, step_grads>>

\* for X, Y in dataloader: the next batch, or the end of the pass
NextBatch ==
    /\ pc = "batch"
    /\ IF remaining = <<>>
       THEN /\ pc' = "epoch_end"
            /\ UNCHANGED <<remaining, X, Y, batch_no, drawn, ops>>
       ELSE LET idxs == BatchIndices(remaining, batch_size)
            IN /\ X' = Collate(data, idxs)[1]
               /\ Y' = Collate(data, idxs)[2]
               /\ remaining' = SubSeq(remaining, Len(idxs) + 1, Len(remaining))
               /\ batch_no' = batch_no + 1
               /\ drawn' = Append(drawn, idxs)
               /\ ops' = <<>>
               /\ pc' = "zero_grad"
    /\ UNCHANGED <<cfgVars, pos_encoding, fwdVars, dataVars, item, batch_size,
                   epochs, epoch, err, output, loss, total_loss, loss_history,
                   grad, epoch_losses, steps, step_grads>>

\* faulty variant of ZeroGrad: the parameter is zeroed along with its gradient
ZeroGradAndParam ==
    /\ pc = "zero_grad"
    /\ grad' = ZeroedGrad(grad)
    /\ pos_encoding' = Zeros(1, max_len, d_model)
    /\ ops' = Append(ops, "zero_grad")
    /\ pc' = "forward"
    /\ UNCHANGED <<cfgVars, fwdVars, dataVars, item, batch_size,
                   remaining, epochs, epoch, err, X, Y, output, loss, total_loss,
                   loss_history, batch_no, drawn, epoch_losses, steps, step_grads>>

\* optimizer.zero_grad()
ZeroGrad ==
    /\ pc = "zero_grad"
    /\ grad' = ZeroedGrad(grad)
    /\ ops' = Append(ops, "zero_grad")
    /\ pc' = "forward"
    /\ UNCHANGED <<cfgVars, pos_encoding, fwdVars, dataVars, item, batch_size,
                   remaining, epochs, epoch, err, X, Y, output, loss, total_loss,
                   loss_history, batch_no, drawn, epoch_losses, steps, step_grads>>

\* output = model(X)
Forward ==
    /\ pc = "forward"
    /\ LET r == ModelForward(model_vocab, d_model, pos_encoding, X)
       IN IF r.err # "none"
          THEN Fail(r.err) /\ UNCHANGED <<output, ops>>
          ELSE /\ output' = r.val
               /\ ops' = Append(ops, "forward")
               /\ pc' = "view"
               /\ UNCHANGED err
    /\ UNCHANGED <<cfgVars, pos_encoding, fwdVars, dataVars, item, batch_size,
                   remaining, epochs, epoch, X, Y, loss, total_loss, loss_history,
                   grad, batch_no, drawn, epoch_losses, steps, step_grads>>

\* output = output.view(-1, vocab_size); Y = Y.view(-1)
Reshape ==
    /\ pc = "view"
    /\ LET r == View(output, vocab_size)
       IN IF r.err # "none"
          THEN Fail(r.err) /\ UNCHANGED <<output, Y>>
          ELSE /\ output' = r.val
               /\ Y' = ViewFlat(Y)
               /\ pc' = "loss"
               /\ UNCHANGED err
    /\ UNCHANGED <<cfgVars, pos_encoding, fwdVars, dataVars, item, batch_size,
                   remaining, epochs, epoch, X, loss, total_loss, loss_history,
                   grad, histVars>>

\* loss = criterion(output, Y)
Loss ==
    /\ pc = "loss"
    /\ \E r \in CrossEntropy(output, Y) :
          IF r.err # "none"
          THEN Fail(r.err) /\ UNCHANGED <<loss, ops>>
          ELSE /\ loss' = r.val
               /\ ops' = Append(ops, "loss")
               /\ pc' = "backward"
               /\ UNCHANGED err
    /\ UNCHANGED <<cfgVars, pos_encoding, fwdVars, dataVars, item, batch_size,
                   remaining, epochs, epoch, X, Y, output, total_loss,
                   loss_history, grad, batch_no, drawn, epoch_losses, steps,
                   step_grads>>

\* loss.backward()
Backward ==
    /\ pc = "backward"
    /\ \E dir \in {-1, 1} :
          /\ InCap(Stepped(pos_encoding, Accumulate(grad, batch_no, dir), Size1(X)))
          /\ grad' = Accumulate(grad, batch_no, dir)
    /\ ops' = Append(ops, "backward")
    /\ pc' = "step"
    /\ UNCHANGED <<cfgVars, pos_encoding, fwdVars, dataVars, item, batch_size,
                   remaining, epochs, epoch, err, X, Y, output, loss, total_loss,
                   loss_history, batch_no, drawn, epoch_losses, steps, step_grads>>

\* optimizer.step()
Step ==
    /\ pc = "step"
    /\ pos_encoding' = Stepped(pos_encoding, grad, Size1(X))
    /\ steps' = steps + 1
    /\ step_grads' = step_grads \cup {<<batch_no, grad.batches>>}
    /\ ops' = Append(ops, "step")
    /\ pc' = "accum"
    /\ UNCHANGED <<cfgVars, fwdVars, dataVars, item, batch_size, remaining,
                   epochs, epoch, err, X, Y, output, loss, total_loss,
                   loss_history, grad, batch_no, drawn, epoch_losses>>

\* total_loss += loss.item().  The batch's X, Y, output and loss are not read
\* again before the loop rebinds them; they are dropped here.
Accum ==
    /\ pc = "accum"
    /\ total_loss' = total_loss + loss
    /\ epoch_losses' = Append(epoch_losses, loss)
    /\ ops' = Append(ops, "accumulate")
    /\ pc' = "batch"
    /\ X' = <<>> /\ Y' = <<>> /\ output' = <<>> /\ loss' = 0
    /\ UNCHANGED <<cfgVars, pos_encoding, fwdVars, dataVars, item, batch_size,
                   remaining, epochs, epoch, err, loss_history, grad, batch_no,
                   drawn, steps, step_grads>>

\* avg_loss = total_loss / len(dataloader); loss_history.append(avg_loss); print
EpochEnd ==
    /\ pc = "epoch_end"
    /\ LET r == TrueDiv(total_loss, LenDataLoader(num_samples, batch_size))
       IN IF r.err # "none"
          THEN Fail(r.err) /\ UNCHANGED <<loss_history, epoch>>
          ELSE /\ loss_history' = Append(loss_history, r.val)
               /\ epoch' = epoch + 1
               /\ pc' = "epoch"
               /\ UNCHANGED err
    /\ UNCHANGED <<cfgVars, pos_encoding, fwdVars, dataVars, item, batch_size,
                   remaining, epochs, X, Y, output, loss, total_loss, grad,
                   histVars>>

Next ==
    \/ Setup \/ EpochHead \/ NextBatch \/ ZeroGrad \/ Forward \/ Reshape
    \/ Loss \/ Backward \/ Step \/ Accum \/ EpochEnd

Spec == Init /\ [][Next]_vars

----------------------------------------------------------------------------
(* Properties of a call of train_model *)

\* number of batches of one pass, and the sequence length of a batch
NumBatches == LenDataLoader(num_samples, batch_size)
BatchOps == <<"zero_grad", "forward", "loss", "backward", "step", "accumulate">>

RECURSIVE Concat(_)
Concat(ss) == IF ss = <<>> THEN <<>> ELSE ss[1] \o Concat(Tail(ss))

\* C2: for every model, batch source and epoch count E >= 0, train_model
\* runs exactly E epochs and returns a loss history of exactly E entries.
C2_AlwaysReturnsFullHistory ==
    (pc \in {"done", "error"}) =>
        (pc = "done" /\ epoch = epochs /\ Len(loss_history) = epochs)

\* C6: every batch the source yields, the last one of a pass included, holds
\* exactly batch_size (input, target) pairs.
C6_EveryBatchFull ==
    (pc = "zero_grad") => (Len(X) = batch_size /\ Len(Y) = batch_size)

\* C6 as amended: every batch of a pass but the last holds exactly batch_size
\* pairs; the last holds the num_samples - batch_size * (N - 1) pairs left,
\* between 1 and batch_size, N = ceil(num_samples / batch_size) batches a pass.
C6_BatchesFullButLast ==
    /\ Len(drawn) <= NumBatches
    /\ \A n \in 1..Len(drawn) :
          Len(drawn[n]) = IF n < NumBatches THEN batch_size
                          ELSE num_samples - batch_size * (NumBatches - 1)
    /\ \A n \in 1..Len(drawn) : Len(drawn[n]) \in 1..batch_size
    /\ (pc = "zero_grad") =>
          (Len(X) = Len(drawn[Len(drawn)]) /\ Len(Y) = Len(X))

\* the short last batch of a pass has been drawn after a full one
C6_Witness ==
    /\ pc = "zero_grad" /\ Len(drawn) = NumBatches /\ NumBatches >= 2
    /\ Len(X) < batch_size

\* C7: the positional table is all zeros at construction, keeps its shape
\* (max_len, d_model) in every state, and only an optimizer step changes it.
C7_TableChangedOnlyByStep ==
    /\ pos_encoding = Zeros(1, max_len, d_model)
    /\ [](Shape(pos_encoding) = <<1, max_len, d_model>>)
    /\ [][pc # "step" => pos_encoding' = pos_encoding]_vars

\* an optimizer step has changed the table and the next batch is being run
C7_Witness ==
    /\ pc = "backward" /\ steps >= 1
    /\ pos_encoding # Zeros(1, max_len, d_model)

\* C8: each epoch draws every batch of the source exactly once; for each
\* batch the steps are zero_grad, forward, loss, backward, one optimizer
\* step, loss accumulation, in this order; after E epochs over N batches
\* E * N optimizer steps have been applied, each with the gradient of its
\* own batch only.
C8_OneStepPerBatchInOrder ==
    /\ ops = SubSeq(BatchOps, 1, Len(ops))
    /\ (pc = "batch" /\ drawn # <<>>) => ops = BatchOps
    /\ (pc = "epoch_end") =>
          /\ Len(drawn) = NumBatches
          /\ Len(Concat(drawn)) = num_samples
          /\ \A a \in 0..(num_samples - 1) :
                \E n \in 1..num_samples : Concat(drawn)[n] = a
          /\ steps = (epoch + 1) * NumBatches
    /\ (pc = "done") => steps = epochs * NumBatches
    /\ \A sg \in step_grads : sg[2] = {sg[1]}
    /\ Cardinality(step_grads) = steps

\* two epochs over at least two batches have run to the end
C8_Witness ==
    pc = "done" /\ epochs >= 2 /\ NumBatches >= 2 /\ steps >= 4

\* C9: the logits of a batch (B, L) are reshaped to (B * L, V), V the
\* vocabulary of the model passed in, so that row b * L + i of the reshaped
\* logits is logits[b][i], paired with entry b * L + i of the targets.
C9_ReshapeByModelVocab ==
    (pc = "loss" \/ (pc = "error" /\ err.at = "view")) =>
        LET logits == ModelForward(model_vocab, d_model, pos_encoding, X).val
            L == Size1(X)
        IN /\ pc = "loss"
           /\ Len(output) = Len(X) * L
           /\ Len(Y) = Len(X) * L
           /\ \A b \in 1..Len(X) : \A i \in 1..L :
                 output[(b - 1) * L + i] = logits[b][i]

\* C10: the value appended for an epoch is the sum of the losses of the
\* batches of that epoch alone divided by the number of batches of the
\* source, whatever the size of each batch.
C10_AverageOfOwnEpoch ==
    (pc = "epoch" /\ epoch >= 1) =>
        /\ Len(loss_history) = epoch
        /\ Len(epoch_losses) = NumBatches
        /\ loss_history[epoch][2] > 0
        /\ loss_history[epoch][1] * NumBatches
              = SeqSum(epoch_losses) * loss_history[epoch][2]

\* a second epoch over batches of different sizes has been averaged
C10_Witness ==
    /\ pc = "epoch" /\ epoch >= 2 /\ NumBatches >= 2
    /\ num_samples % batch_size # 0
    /\ loss_history[1] # loss_history[2]

====
